---- MODULE Spec2Model ----
(***************************************************************************)
(* Model of the data import pipeline of                                    *)
(* content/posts/data-import-pipeline-genstage-flow/index.mdx:             *)
(*   GenstageImporter.Pipeline.Order.import/0    (orders.csv -> ETS)       *)
(*   GenstageImporter.Pipeline.Product.import    (products.csv -> items)   *)
(*   GenstageImporter.EctoImporter.import/2      (batches, upsert, delete) *)
(*                                                                         *)
(* Four specifications share the variables:                                *)
(*   SpecOrder   the order preprocessing flow                              *)
(*   SpecImport  the product flow with the upsert sink and the delete step *)
(*   SpecSink    the upsert callback applied to arbitrary batches          *)
(*   SpecRun     a whole run: the order flow, then the product flow        *)
(*               (FairRun: the same under fair scheduling)                 *)
(***************************************************************************)
EXTENDS Integers, Sequences, FiniteSets, TLC

(***************************************************************************)
(* Bounds of the model.                                                    *)
(***************************************************************************)
\* longest products.csv feed (rows), the snapshot scenario apart
MaxProducts == 2
\* the wall clock reads 0..MaxClock
MaxClock == 2
\* Flow.Window.count(1_000) (index.mdx:250), scaled down
BatchSize == 2
\* Enum.chunk_every(1_000) (index.mdx:275), scaled down
ChunkSize == 2
\* batches applied in SpecSink before one is repeated
MaxUpserts == 1
\* longest orders.csv feed (rows), the sample feeds apart
MaxOrders == 2
\* mapper stages of Flow.from_enumerable (System.schedulers_online by default)
Mappers == 2

(***************************************************************************)
(* Program constants.                                                      *)
(***************************************************************************)
\* stages: 4 of the batching partition
BatchStages == 4
\* stages: 4 of the partition by order_number
OrderStages == 4

VARIABLES
  \* ---- Product.import / EctoImporter ----
  pc,               \* "idle" | "upsert" | "delete" | "done" | "failed"
  err,              \* what ended the run: "none" | "decode" | "stage" |
                    \* "process" | "upsert" | "delete"
  feed,             \* products.csv, decoded: a sequence of rows
  taken,            \* positions of feed already transformed and reduced
  products,         \* table_ref: product_number -> aggregate (ETS table)
  ptable,           \* that table: "none" | "live" | "deleted"
  acc,              \* per batching stage: the reduce accumulator (a list)
  stageDone,        \* per batching stage: its final trigger has run
  emitted,          \* ids emitted by on_trigger so far
  batches,          \* per batching stage: the batches on_trigger was given
  store,            \* the products table of the database: a set of rows
  imported_ids,     \* delete/2: imported_ids
  chunks,           \* delete/2: chunks of ids_to_delete still to delete
  deleted,          \* ids removed by Repo.delete_all in this run
  persisted_before, \* ids in the store when the run started
  now,              \* DateTime.utc_now()
  \* ---- SpecSink ----
  sinkBatch,        \* the batch last given to the upsert callback
  sinkPrev,         \* the store before that call
  sinkSnap,         \* the store after the first call with sinkBatch
  sinkCalls,        \* calls of the callback so far
  sinkAgain,        \* the last call repeated the batch of the call before
  \* ---- Order.import ----
  opc,              \* "idle" | "flow" | "done" | "raised" | "exited"
  orders,           \* orders.csv, decoded: a sequence of rows
  opos,             \* rows of orders the producer has dispatched
  mq,               \* per mapper stage: rows received, not yet mapped
  rq,               \* per reducer stage: events received, not yet reduced
  tab,              \* per reducer stage: its :orders ETS table
  towner,           \* per reducer stage: "worker" | "parent" | "deleted"
  tables,           \* Enum.to_list(): the tables given away so far
  tpos,             \* how many of them Enum.each has processed and deleted
  finalized,        \* order_number -> the entry process_order/2 was given
  merged            \* per reducer stage: the events it reduced, in order

importVars == <<pc, err, feed, taken, products, ptable, acc, stageDone,
                emitted, batches, imported_ids, chunks, deleted,
                persisted_before>>
sinkVars == <<sinkBatch, sinkPrev, sinkSnap, sinkCalls, sinkAgain>>
orderVars == <<opc, orders, opos, mq, rq, tab, towner, tables, tpos,
               finalized, merged>>
vars == <<importVars, sinkVars, orderVars, store, now>>

(***************************************************************************)
(* Helpers.                                                                *)
(***************************************************************************)
Range(s) == {s[i] : i \in DOMAIN s}

Min(S) == CHOOSE x \in S : \A y \in S : x <= y

RECURSIVE SortedList(_)
\* MapSet.to_list/1 of a small set of terms: ascending term order
SortedList(S) ==
  IF S = {} THEN <<>> ELSE <<Min(S)>> \o SortedList(S \ {Min(S)})

RECURSIVE ChunkEveryDiscard(_, _)
\* Enum.chunk_every/2 that leaves out a last chunk shorter than n
ChunkEveryDiscard(list, n) ==
  IF Len(list) < n THEN <<>>
  ELSE <<SubSeq(list, 1, n)>>
         \o ChunkEveryDiscard(SubSeq(list, n + 1, Len(list)), n)

RECURSIVE ChunkEvery(_, _)
\* Enum.chunk_every/2
ChunkEvery(list, n) ==
  IF list = <<>> THEN <<>>
  ELSE IF Len(list) <= n THEN <<list>>
  ELSE <<SubSeq(list, 1, n)>> \o ChunkEvery(SubSeq(list, n + 1, Len(list)), n)

SeqsUpTo(S, n) == UNION {[1..k -> S] : k \in 0..n}

(***************************************************************************)
(* Data.                                                                   *)
(***************************************************************************)
RECURSIVE DigitsValue(_)
\* the integer a string of decimal digits denotes
DigitsValue(ds) ==
  IF ds = <<>> THEN 0
  ELSE 10 * DigitsValue(SubSeq(ds, 1, Len(ds) - 1)) + ds[Len(ds)]

\* Parser.parse_integer/1 on a column holding decimal digits
parse_integer(str) == DigitsValue(str)

\* Parser.parse_decimal/1 on a column holding decimal digits
parse_decimal(str) == DigitsValue(str)

\* the PRODUCT_NUMBER column of the feeds
ProductNumbers == {1, 2, 3}
\* the PRICE column: strings of one digit
Prices == {<<1>>, <<2>>}

\* a decoded line of products.csv (COMMODITY and SHORT_DESC are carried
\* through transform/2 exactly like PRICE and are not kept apart here)
ProductRows == [PRODUCT_NUMBER : ProductNumbers, PRICE : Prices]

\* what row["PRODUCT_NUMBER"] is for a line that has no product number
NoId == 0
\* such a line
NoIdRow == [PRODUCT_NUMBER |-> NoId, PRICE |-> <<1>>]

\* the lines of products.csv that decode
ProductFeedRows == ProductRows \cup {NoIdRow}

\* ETS.fetch_product/2: {pending, pending_pieces, orders_present}
NoAggregate == [pending |-> FALSE, pending_pieces |-> 0, orders_present |-> FALSE]

fetch_product(table_ref, product_number) ==
  IF product_number \in DOMAIN table_ref
  THEN table_ref[product_number]
  ELSE NoAggregate

\* transform/2 without the lookup: every entity gets the defaults
transform_unjoined(row, table_ref) ==
  [external_id |-> row.PRODUCT_NUMBER,
   product_number |-> row.PRODUCT_NUMBER,
   price |-> parse_decimal(row.PRICE),
   pending_orders_present |-> FALSE,
   orders_present |-> FALSE,
   pending_pieces |-> 0]

\* Pipeline.Product.transform/2
transform(row, table_ref) ==
  LET product_number == row.PRODUCT_NUMBER
      agg == fetch_product(table_ref, product_number)
  IN [external_id |-> product_number,
      product_number |-> product_number,
      price |-> parse_decimal(row.PRICE),
      pending_orders_present |-> agg.pending,
      orders_present |-> agg.orders_present,
      pending_pieces |-> agg.pending_pieces]

\* the hash Flow.partition routes an event by (:erlang.phash2 of the event)
ItemHash(item) ==
  item.external_id * 3 + item.price * 5 + item.pending_pieces * 7

\* Flow.partition(window: ..., stages: 4): the batching stage of an event
BatchStageOf(item) == ItemHash(item) % BatchStages

\* EctoImporter.add_timestamps/1 (both fields read the clock)
add_timestamps(items, t) ==
  [i \in DOMAIN items |->
     [external_id |-> items[i].external_id,
      product_number |-> items[i].product_number,
      price |-> items[i].price,
      pending_orders_present |-> items[i].pending_orders_present,
      orders_present |-> items[i].orders_present,
      pending_pieces |-> items[i].pending_pieces,
      inserted_at |-> t,
      updated_at |-> t]]

Ids(rows) == {r.external_id : r \in rows}

\* one INSERT ... ON CONFLICT (external_id) DO UPDATE cannot touch a row twice
ConflictsWithinBatch(rows) ==
  \E i, j \in DOMAIN rows : i /= j /\ rows[i].external_id = rows[j].external_id

\* insert_all without on_conflict: rows are only added
insert_all_plain(st, rows) == st \cup Range(rows)

\* Repo.insert_all(schema, rows, on_conflict: :replace_all,
\*                 conflict_target: :external_id)
insert_all(st, rows) ==
  {r \in st : r.external_id \notin Ids(Range(rows))} \cup Range(rows)

\* Repo.delete_all(from(p in schema, where: p.external_id in ^ids))
delete_all(st, ids) == {r \in st : r.external_id \notin Range(ids)}

\* delete/2 deleting every existing id
ids_to_delete_all(existing_ids, imported) == SortedList(existing_ids)

\* delete/2 deleting nothing when the run has written nothing
ids_to_delete_guarded(existing_ids, imported) ==
  IF imported = {} THEN <<>> ELSE SortedList(existing_ids \ imported)

\* delete/2: ids_to_delete
ids_to_delete(existing_ids, imported) ==
  SortedList(existing_ids \ imported)

\* the on_trigger callback of upsert/2: the store after it
UpsertBatch(st, items, t) == insert_all(st, add_timestamps(items, t))

\* a row imported by an earlier run
OldRow(id) ==
  [external_id |-> id, product_number |-> id, price |-> 0,
   pending_orders_present |-> FALSE, orders_present |-> FALSE,
   pending_pieces |-> 0, inserted_at |-> 0, updated_at |-> 0]

InitialStores == {{OldRow(id) : id \in S} : S \in SUBSET ProductNumbers}

\* the snapshot scenario: the store holds 1, 2, 3 and the feed writes 2, 3, 4
SnapshotStore == {OldRow(1), OldRow(2), OldRow(3)}
SnapshotFeed ==
  << [PRODUCT_NUMBER |-> 2, PRICE |-> <<1>>],
     [PRODUCT_NUMBER |-> 3, PRICE |-> <<1>>],
     [PRODUCT_NUMBER |-> 4, PRICE |-> <<1>>] >>

\* three products, two of them routed to the same batching stage
WindowFeed ==
  << [PRODUCT_NUMBER |-> 1, PRICE |-> <<1>>],
     [PRODUCT_NUMBER |-> 2, PRICE |-> <<2>>],
     [PRODUCT_NUMBER |-> 3, PRICE |-> <<1>>] >>

\* results of Order.import/0 the product flow is started with
ProductTables ==
  { <<>>,
    (1 :> [pending |-> TRUE, pending_pieces |-> 1, orders_present |-> TRUE]) }

BatchStageIds == 0..(BatchStages - 1)
MapperIds == 1..Mappers
OrderStageIds == 0..(OrderStages - 1)

\* Order.import/0 is not running
OrderIdle ==
  /\ opc = "idle"
  /\ orders = <<>>
  /\ opos = 0
  /\ mq = [m \in MapperIds |-> <<>>]
  /\ rq = [w \in OrderStageIds |-> <<>>]
  /\ tab = [w \in OrderStageIds |-> <<>>]
  /\ towner = [w \in OrderStageIds |-> "worker"]
  /\ tables = {}
  /\ tpos = 0
  /\ finalized = <<>>
  /\ merged = [w \in OrderStageIds |-> <<>>]


(***************************************************************************)
(* Product.import and EctoImporter.import/2.                               *)
(***************************************************************************)
ImportIdle ==
  /\ pc = "idle"
  /\ feed = <<>>
  /\ taken = {}
  /\ acc = [s \in BatchStageIds |-> <<>>]
  /\ stageDone = [s \in BatchStageIds |-> FALSE]
  /\ emitted = {}
  /\ batches = [s \in BatchStageIds |-> <<>>]
  /\ imported_ids = {}
  /\ chunks = <<>>
  /\ deleted = {}
  /\ persisted_before = {}

SinkIdle ==
  /\ sinkBatch = <<>>
  /\ sinkPrev = {}
  /\ sinkSnap = {}
  /\ sinkCalls = 0
  /\ sinkAgain = FALSE

\* Product.import is called: table_ref is the result of Order.import/0, the
\* products table holds what an earlier run left there
InitImport ==
  /\ pc = "upsert"
  /\ err = "none"
  /\ \/ feed \in SeqsUpTo(ProductFeedRows, MaxProducts) /\ store \in InitialStores
     \/ feed \in {SnapshotFeed, WindowFeed} /\ store = SnapshotStore
  /\ taken = {}
  /\ products \in ProductTables
  /\ ptable = "live"
  /\ acc = [s \in BatchStageIds |-> <<>>]
  /\ stageDone = [s \in BatchStageIds |-> FALSE]
  /\ emitted = {}
  /\ batches = [s \in BatchStageIds |-> <<>>]
  /\ imported_ids = {}
  /\ chunks = <<>>
  /\ deleted = {}
  /\ persisted_before = Ids(store)
  /\ now = 1
  /\ SinkIdle
  /\ OrderIdle

\* the after clause of Product.import: :ets.delete(table_ref)
ReleaseTable ==
  /\ products' = <<>>
  /\ ptable' = "deleted"

\* Flow.map(&transform(&1, table_ref)), the partitions and the reducer of
\* split_in_batches/1 for one row: the concurrent stages before the batching
\* stage deliver the rows in any order; the reducer prepends the item
ReduceItem(i) ==
  /\ pc = "upsert"
  /\ i \in (DOMAIN feed) \ taken
  /\ LET item == transform(feed[i], products)
         s == BatchStageOf(item)
     IN /\ Len(acc[s]) < BatchSize
        /\ acc' = [acc EXCEPT ![s] = <<item>> \o acc[s]]
  /\ taken' = taken \cup {i}
  /\ UNCHANGED <<pc, err, feed, products, ptable, stageDone, emitted, batches,
                 imported_ids, chunks, deleted, persisted_before, store, now,
                 sinkVars, orderVars>>

\* CSV.decode! raises on a line of products.csv that does not decode: the
\* producer stops, no stage sees the end of the stream, the run ends
ProductDecodeRaises ==
  /\ pc = "upsert"
  /\ \A s \in BatchStageIds : ~stageDone[s]
  /\ pc' = "failed"
  /\ err' = "decode"
  /\ ReleaseTable
  /\ UNCHANGED <<feed, taken, acc, stageDone, emitted, batches, imported_ids,
                 chunks, deleted, persisted_before, store, now, sinkVars,
                 orderVars>>

\* the on_trigger callback of upsert/2 on the accumulator of stage s
Trigger(s) ==
  IF ConflictsWithinBatch(acc[s])
  THEN /\ pc' = "failed"
       /\ err' = "upsert"
       /\ ReleaseTable
       /\ UNCHANGED <<store, emitted, batches, acc>>
  ELSE /\ store' = UpsertBatch(store, acc[s], now)
       /\ emitted' = emitted \cup Ids(Range(acc[s]))
       /\ batches' = [batches EXCEPT ![s] = Append(batches[s], acc[s])]
       /\ acc' = [acc EXCEPT ![s] = <<>>]
       /\ UNCHANGED <<pc, err, products, ptable>>

\* the count window of stage s is full
TriggerWindow(s) ==
  /\ pc = "upsert"
  /\ Len(acc[s]) = BatchSize
  /\ Trigger(s)
  /\ UNCHANGED <<feed, taken, stageDone, imported_ids, chunks, deleted,
                 persisted_before, now, sinkVars, orderVars>>

\* the final trigger of stage s dropping what is left of its last window
TriggerDoneDiscard(s) ==
  /\ pc = "upsert"
  /\ taken = DOMAIN feed
  /\ ~stageDone[s]
  /\ Len(acc[s]) < BatchSize
  /\ acc' = [acc EXCEPT ![s] = <<>>]
  /\ stageDone' = [stageDone EXCEPT ![s] = TRUE]
  /\ UNCHANGED <<pc, err, feed, taken, products, ptable, emitted, batches,
                 imported_ids, chunks, deleted, persisted_before, store, now,
                 sinkVars, orderVars>>

\* the flow is done: stage s triggers on what is left of its last window
TriggerDone(s) ==
  /\ pc = "upsert"
  /\ taken = DOMAIN feed
  /\ ~stageDone[s]
  /\ Len(acc[s]) < BatchSize
  /\ Trigger(s)
  /\ stageDone' = [stageDone EXCEPT ![s] = TRUE]
  /\ UNCHANGED <<feed, taken, imported_ids, chunks, deleted, persisted_before,
                 now, sinkVars, orderVars>>

\* a failing batch write that is logged and skipped
TriggerRaisesSkip(s) ==
  /\ pc = "upsert"
  /\ acc[s] /= <<>>
  /\ Len(acc[s]) = BatchSize \/ (taken = DOMAIN feed /\ ~stageDone[s])
  /\ acc' = [acc EXCEPT ![s] = <<>>]
  /\ err' = "upsert"
  /\ UNCHANGED <<pc, feed, taken, products, ptable, stageDone, emitted,
                 batches, imported_ids, chunks, deleted, persisted_before,
                 store, now, sinkVars, orderVars>>

\* Repo.insert_all raises in the callback of stage s
TriggerRaises(s) ==
  /\ pc = "upsert"
  /\ acc[s] /= <<>>
  /\ Len(acc[s]) = BatchSize \/ (taken = DOMAIN feed /\ ~stageDone[s])
  /\ pc' = "failed"
  /\ err' = "upsert"
  /\ ReleaseTable
  /\ UNCHANGED <<feed, taken, acc, stageDone, emitted, batches, imported_ids,
                 chunks, deleted, persisted_before, store, now, sinkVars,
                 orderVars>>

\* delete/2 starting as soon as one batching stage is done
StartDeleteEarly ==
  /\ pc = "upsert"
  /\ \E s \in BatchStageIds : stageDone[s]
  /\ imported_ids' = emitted
  /\ LET existing_ids == Ids(store)
     IN chunks' = ChunkEvery(ids_to_delete(existing_ids, emitted), ChunkSize)
  /\ pc' = "delete"
  /\ UNCHANGED <<err, feed, taken, products, ptable, acc, stageDone, emitted,
                 batches, deleted, persisted_before, store, now, sinkVars,
                 orderVars>>

\* Enum.to_list() |> MapSet.new() returns and delete/2 computes the chunks
StartDelete ==
  /\ pc = "upsert"
  /\ \A s \in BatchStageIds : stageDone[s]
  /\ imported_ids' = emitted
  /\ LET existing_ids == Ids(store)
     IN chunks' = ChunkEvery(ids_to_delete(existing_ids, emitted), ChunkSize)
  /\ pc' = "delete"
  /\ UNCHANGED <<err, feed, taken, products, ptable, acc, stageDone, emitted,
                 batches, deleted, persisted_before, store, now, sinkVars,
                 orderVars>>

\* Repo.delete_all on the next chunk
DeleteChunk ==
  /\ pc = "delete"
  /\ chunks /= <<>>
  /\ store' = delete_all(store, Head(chunks))
  /\ deleted' = deleted \cup (Ids(store) \ Ids(store'))
  /\ chunks' = Tail(chunks)
  /\ UNCHANGED <<pc, err, feed, taken, products, ptable, acc, stageDone,
                 emitted, batches, imported_ids, persisted_before, now,
                 sinkVars, orderVars>>

\* Repo.delete_all raises on the next chunk: Enum.map stops there
DeleteRaises ==
  /\ pc = "delete"
  /\ chunks /= <<>>
  /\ pc' = "failed"
  /\ err' = "delete"
  /\ ReleaseTable
  /\ UNCHANGED <<feed, taken, acc, stageDone, emitted, batches, imported_ids,
                 chunks, deleted, persisted_before, store, now, sinkVars,
                 orderVars>>

\* Enum.map over the chunks is done: import/2 returns and Product.import
\* leaves through its after clause
FinishDelete ==
  /\ pc = "delete"
  /\ chunks = <<>>
  /\ pc' = "done"
  /\ ReleaseTable
  /\ UNCHANGED <<err, feed, taken, acc, stageDone, emitted, batches,
                 imported_ids, chunks, deleted, persisted_before, store, now,
                 sinkVars, orderVars>>

\* the wall clock advances
Tick ==
  /\ pc \in {"idle", "upsert", "delete"}
  /\ now < MaxClock
  /\ now' = now + 1
  /\ UNCHANGED <<importVars, sinkVars, orderVars, store>>

NextImport ==
  \/ \E i \in DOMAIN feed : ReduceItem(i)
  \/ ProductDecodeRaises
  \/ \E s \in BatchStageIds : TriggerWindow(s)
  \/ \E s \in BatchStageIds : TriggerDone(s)
  \/ \E s \in BatchStageIds : TriggerRaises(s)
  \/ StartDelete
  \/ DeleteChunk
  \/ DeleteRaises
  \/ FinishDelete
  \/ Tick

SpecImport == InitImport /\ [][NextImport]_vars

(***************************************************************************)
(* The upsert callback on its own: any batches against any store.          *)
(***************************************************************************)
\* the items transform/2 makes of the rows when no order is known
Items == {transform(r, <<>>) : r \in ProductRows}

\* the accumulators a trigger can see: 1..BatchSize items
SinkBatches == UNION {[1..k -> Items] : k \in 1..BatchSize}

InitSink ==
  /\ ImportIdle
  /\ err = "none"
  /\ products = <<>>
  /\ ptable = "none"
  /\ SinkIdle
  /\ OrderIdle
  /\ store \in InitialStores
  /\ now = 1

\* the callback runs on a batch; a statement that raises writes nothing
SinkUpsert(batch) ==
  /\ pc = "idle"
  /\ sinkCalls < MaxUpserts
  /\ store' = IF ConflictsWithinBatch(batch) THEN store
              ELSE UpsertBatch(store, batch, now)
  /\ sinkBatch' = batch
  /\ sinkPrev' = store
  /\ sinkSnap' = store'
  /\ sinkCalls' = sinkCalls + 1
  /\ sinkAgain' = FALSE
  /\ UNCHANGED <<importVars, orderVars, now>>

\* the callback runs once more on the batch it was just given
SinkUpsertAgain ==
  /\ pc = "idle"
  /\ sinkCalls >= 1
  /\ ~sinkAgain
  /\ store' = IF ConflictsWithinBatch(sinkBatch) THEN store
              ELSE UpsertBatch(store, sinkBatch, now)
  /\ sinkPrev' = store
  /\ sinkAgain' = TRUE
  /\ UNCHANGED <<importVars, orderVars, now, sinkBatch, sinkSnap, sinkCalls>>

NextSink ==
  \/ \E batch \in SinkBatches : SinkUpsert(batch)
  \/ SinkUpsertAgain
  \/ Tick

SpecSink == InitSink /\ [][NextSink]_vars

(***************************************************************************)
(* Order.import/0.                                                         *)
(***************************************************************************)
\* the ORDER_NUMBER column of the feeds
OrderNumbers == {1, 2}
\* what a line says of its product and pieces: PRODUCT_NUMBER,
\* ORDERED_PIECES, SHIPPED_PIECES
Lines == {<<1, <<2>>, <<1>> >>, <<2, <<1>>, <<2>> >>}

\* a decoded line of orders.csv
OrderRows ==
  {[ORDER_NUMBER |-> o, LINE_STATUS |-> st, PRODUCT_NUMBER |-> l[1],
    ORDERED_PIECES |-> l[2], SHIPPED_PIECES |-> l[3], BILL_OF_LADING |-> bol] :
      o \in OrderNumbers, st \in {"Open", "Closed"}, l \in Lines,
      bol \in {"", "12"}}

OrderRow(o, st, p, ord, sh, bol) ==
  [ORDER_NUMBER |-> o, LINE_STATUS |-> st, PRODUCT_NUMBER |-> p,
   ORDERED_PIECES |-> ord, SHIPPED_PIECES |-> sh, BILL_OF_LADING |-> bol]

\* the two shipments of order-2: Open 4000/1200 with bill of lading 12,
\* Open 4000/2000 without
Order2Feed ==
  << OrderRow(2, "Open", 1, <<4, 0, 0, 0>>, <<1, 2, 0, 0>>, "12"),
     OrderRow(2, "Open", 1, <<4, 0, 0, 0>>, <<2, 0, 0, 0>>, "") >>

\* order-1 and order-2 of the sample orders.csv
SampleFeed ==
  << OrderRow(1, "Closed", 1, <<1>>, <<0>>, ""),
     OrderRow(2, "Closed", 1, <<4, 0, 0, 0>>, <<1, 2, 0, 0>>, "12"),
     OrderRow(2, "Open", 1, <<4, 0, 0, 0>>, <<2, 0, 0, 0>>, "") >>

\* two orders whose numbers hash to the same stage, for the same product
SharedStageFeed ==
  << OrderRow(1, "Open", 1, <<2>>, <<1>>, ""),
     OrderRow(3, "Open", 1, <<2>>, <<1>>, "") >>

OrderFeeds ==
  SeqsUpTo(OrderRows, MaxOrders) \cup {Order2Feed, SampleFeed, SharedStageFeed}

\* valid/1: a Closed row without bill of lading did not ship and is ignored
valid(row) == ~(row.LINE_STATUS = "Closed" /\ row.BILL_OF_LADING = "")

\* pending/1: the row is Open and has no bill of lading
pending(row) == row.LINE_STATUS = "Open" /\ row.BILL_OF_LADING = ""

\* the Flow.map of import/0: the smaller map kept of a row
project(row) ==
  [order_number |-> row.ORDER_NUMBER,
   product_number |-> row.PRODUCT_NUMBER,
   ordered_pieces |-> parse_integer(row.ORDERED_PIECES),
   shipped_pieces |-> parse_integer(row.SHIPPED_PIECES),
   pending |-> pending(row)]

\* the flow without its filter
FilterMapAll(row) == <<project(row)>>

\* Flow.filter(&valid/1) |> Flow.map(...): the events a row becomes
FilterMap(row) == IF valid(row) THEN <<project(row)>> ELSE <<>>

\* the hash Flow.partition routes by: :erlang.phash2 of the key
KeyHash(key) == key * key * 3 + 1

\* a partition keyed by the product number
OrderStageOfProduct(event) == KeyHash(event.product_number) % OrderStages

\* Flow.partition(key: {:key, :order_number}, stages: 4)
OrderStageOf(event) == KeyHash(event.order_number) % OrderStages

\* ETS.fetch_order/2: the entry of the order, or one with nothing shipped
fetch_order(table, order_number) ==
  IF order_number \in DOMAIN table
  THEN table[order_number]
  ELSE [order_number |-> order_number, product_number |-> 0,
        ordered_pieces |-> 0, shipped_pieces |-> 0, pending |-> FALSE]

\* ETS.insert_order/6
insert_order(table, order_number, product_number, ordered, shipped, flag) ==
  [k \in (DOMAIN table) \cup {order_number} |->
     IF k = order_number
     THEN [order_number |-> order_number, product_number |-> product_number,
           ordered_pieces |-> ordered, shipped_pieces |-> shipped,
           pending |-> flag]
     ELSE table[k]]

\* the reducer keeping the pending flag only while every row is pending
reduce_order_all_pending(row, table) ==
  LET order_number == row.order_number
      old == fetch_order(table, order_number)
  IN insert_order(table, order_number, row.product_number,
                  row.ordered_pieces,
                  old.shipped_pieces + row.shipped_pieces,
                  old.pending /\ row.pending)

\* the reducer taking the pending flag of the row alone
reduce_order_last_pending(row, table) ==
  LET order_number == row.order_number
      old == fetch_order(table, order_number)
  IN insert_order(table, order_number, row.product_number,
                  row.ordered_pieces,
                  old.shipped_pieces + row.shipped_pieces,
                  row.pending)

\* the reducer storing the shipped pieces of the row alone
reduce_order_no_sum(row, table) ==
  LET order_number == row.order_number
      old == fetch_order(table, order_number)
  IN insert_order(table, order_number, row.product_number,
                  row.ordered_pieces,
                  row.shipped_pieces,
                  old.pending \/ row.pending)

\* the reducer function of Flow.reduce
reduce_order(row, table) ==
  LET order_number == row.order_number
      old == fetch_order(table, order_number)
  IN insert_order(table, order_number, row.product_number,
                  row.ordered_pieces,
                  old.shipped_pieces + row.shipped_pieces,
                  old.pending \/ row.pending)

\* pieces of an order still to ship, from its finished totals
pending_pieces(entry) == entry.ordered_pieces - entry.shipped_pieces

\* ETS.insert_product/5
insert_product(table, product_number, is_pending, pieces, present) ==
  [k \in (DOMAIN table) \cup {product_number} |->
     IF k = product_number
     THEN [pending |-> is_pending, pending_pieces |-> pieces,
           orders_present |-> present]
     ELSE table[k]]

\* process_order/2: folds one order into the entry of its product
process_order(entry, table) ==
  LET old == fetch_product(table, entry.product_number)
  IN insert_product(table, entry.product_number,
                    old.pending \/ entry.pending,
                    old.pending_pieces + pending_pieces(entry),
                    TRUE)

RECURSIVE each_order(_, _, _)
\* ETS.each_order(table, &process_order/2) over the orders `keys` of table
each_order(keys, table, acc_products) ==
  IF keys = {} THEN acc_products
  ELSE LET k == Min(keys)
       IN each_order(keys \ {k}, table, process_order(table[k], acc_products))

\* import/0 is called: the products table and the reducers' tables are new
InitOrder ==
  /\ opc = "flow"
  /\ orders \in OrderFeeds
  /\ opos = 0
  /\ mq = [m \in MapperIds |-> <<>>]
  /\ rq = [w \in OrderStageIds |-> <<>>]
  /\ tab = [w \in OrderStageIds |-> <<>>]
  /\ towner = [w \in OrderStageIds |-> "worker"]
  /\ tables = {}
  /\ tpos = 0
  /\ finalized = <<>>
  /\ merged = [w \in OrderStageIds |-> <<>>]
  /\ ImportIdle
  /\ err = "none"
  /\ products = <<>>
  /\ ptable = "live"
  /\ SinkIdle
  /\ store = {}
  /\ now = 1

importRest == <<pc, feed, taken, acc, stageDone, emitted, batches,
                imported_ids, chunks, deleted, persisted_before, store, now,
                sinkVars>>

\* Flow.from_enumerable: the producer hands the next row to a mapper stage
Dispatch(m) ==
  /\ opc = "flow"
  /\ opos < Len(orders)
  /\ mq' = [mq EXCEPT ![m] = Append(mq[m], orders[opos + 1])]
  /\ opos' = opos + 1
  /\ UNCHANGED <<opc, orders, rq, tab, towner, tables, tpos, finalized,
                 merged, products, ptable, err, importRest>>

\* Flow.filter(&valid/1), Flow.map and Flow.partition in mapper stage m
MapRow(m) ==
  /\ opc = "flow"
  /\ mq[m] /= <<>>
  /\ LET events == FilterMap(Head(mq[m]))
     IN rq' = [w \in OrderStageIds |->
                 rq[w] \o SelectSeq(events, LAMBDA e : OrderStageOf(e) = w)]
  /\ mq' = [mq EXCEPT ![m] = Tail(mq[m])]
  /\ UNCHANGED <<opc, orders, opos, tab, towner, tables, tpos, finalized,
                 merged, products, ptable, err, importRest>>

\* Flow.reduce in reducer stage w
ReduceOrder(w) ==
  /\ opc = "flow"
  /\ towner[w] = "worker"
  /\ rq[w] /= <<>>
  /\ tab' = [tab EXCEPT ![w] = reduce_order(Head(rq[w]), tab[w])]
  /\ merged' = [merged EXCEPT ![w] = Append(merged[w], Head(rq[w]))]
  /\ rq' = [rq EXCEPT ![w] = Tail(rq[w])]
  /\ UNCHANGED <<opc, orders, opos, mq, towner, tables, tpos, finalized,
                 products, ptable, err, importRest>>

\* everything before the reducers is done
UpstreamDone == opos = Len(orders) /\ \A m \in MapperIds : mq[m] = <<>>

\* on_trigger emitting the table without :ets.give_away
TriggerOrdersKeep(w) ==
  /\ opc = "flow"
  /\ towner[w] = "worker"
  /\ UpstreamDone
  /\ rq[w] = <<>>
  /\ tables' = tables \cup {w}
  /\ UNCHANGED <<opc, orders, opos, mq, rq, tab, towner, tpos, finalized,
                 merged, products, ptable, err, importRest>>

\* Flow.on_trigger in reducer stage w: :ets.give_away to the parent
TriggerOrders(w) ==
  /\ opc = "flow"
  /\ towner[w] = "worker"
  /\ UpstreamDone
  /\ rq[w] = <<>>
  /\ towner' = [towner EXCEPT ![w] = "parent"]
  /\ tables' = tables \cup {w}
  /\ UNCHANGED <<opc, orders, opos, mq, rq, tab, tpos, finalized, merged,
                 products, ptable, err, importRest>>

\* Enum.each folding the orders of the first table only
ProcessTableFirstOnly(w) ==
  /\ opc = "flow"
  /\ tables = OrderStageIds
  /\ towner[w] = "parent"
  /\ products' = IF tpos = 0 THEN each_order(DOMAIN tab[w], tab[w], products)
                 ELSE products
  /\ finalized' = [k \in (DOMAIN finalized) \cup (DOMAIN tab[w]) |->
                     IF k \in DOMAIN tab[w] THEN tab[w][k] ELSE finalized[k]]
  /\ tab' = [tab EXCEPT ![w] = <<>>]
  /\ towner' = [towner EXCEPT ![w] = "deleted"]
  /\ tpos' = tpos + 1
  /\ UNCHANGED <<opc, orders, opos, mq, rq, tables, merged, ptable, err,
                 importRest>>

\* Enum.each folding a table as soon as it arrives
ProcessTableEarly(w) ==
  /\ opc = "flow"
  /\ towner[w] = "parent"
  /\ products' = each_order(DOMAIN tab[w], tab[w], products)
  /\ finalized' = [k \in (DOMAIN finalized) \cup (DOMAIN tab[w]) |->
                     IF k \in DOMAIN tab[w] THEN tab[w][k] ELSE finalized[k]]
  /\ tab' = [tab EXCEPT ![w] = <<>>]
  /\ towner' = [towner EXCEPT ![w] = "deleted"]
  /\ tpos' = tpos + 1
  /\ UNCHANGED <<opc, orders, opos, mq, rq, tables, merged, ptable, err,
                 importRest>>

\* Enum.each over the list of tables: each_order, then :ets.delete. The
\* list holds the tables in the order they arrived, which is any order
ProcessTable(w) ==
  /\ opc = "flow"
  /\ tables = OrderStageIds
  /\ towner[w] = "parent"
  /\ products' = each_order(DOMAIN tab[w], tab[w], products)
  /\ finalized' = [k \in (DOMAIN finalized) \cup (DOMAIN tab[w]) |->
                     IF k \in DOMAIN tab[w] THEN tab[w][k] ELSE finalized[k]]
  /\ tab' = [tab EXCEPT ![w] = <<>>]
  /\ towner' = [towner EXCEPT ![w] = "deleted"]
  /\ tpos' = tpos + 1
  /\ UNCHANGED <<opc, orders, opos, mq, rq, tables, merged, ptable, err,
                 importRest>>

\* import/0 returns the products table
FinishOrders ==
  /\ opc = "flow"
  /\ tables = OrderStageIds
  /\ tpos = OrderStages
  /\ opc' = "done"
  /\ UNCHANGED <<orders, opos, mq, rq, tab, towner, tables, tpos, finalized,
                 merged, products, ptable, err, importRest>>

\* the flow dies and Enum.to_list exits in the caller: the stage processes
\* are gone and with them the tables they still own; an exit is not an
\* exception, so the rescue clause does not run
FlowExits(cause) ==
  /\ opc' = "exited"
  /\ err' = cause
  /\ mq' = [m \in MapperIds |-> <<>>]
  /\ rq' = [w \in OrderStageIds |-> <<>>]
  /\ tab' = [w \in OrderStageIds |->
               IF towner[w] = "worker" THEN <<>> ELSE tab[w]]
  /\ towner' = [w \in OrderStageIds |->
                  IF towner[w] = "worker" THEN "deleted" ELSE towner[w]]
  /\ UNCHANGED <<orders, opos, tables, tpos, finalized, merged, products,
                 ptable, importRest>>

\* CSV.decode! raises in the producer on a line of orders.csv that does not
\* decode: the stream never completes, so no reducer has triggered
OrderDecodeRaises ==
  /\ opc = "flow"
  /\ tables = {}
  /\ FlowExits("decode")

\* a stage crash that is recorded while the flow carries on
StageCrashesIgnored ==
  /\ opc = "flow"
  /\ tables /= OrderStageIds
  /\ err = "none"
  /\ err' = "stage"
  /\ UNCHANGED <<opc, orders, opos, mq, rq, tab, towner, tables, tpos,
                 finalized, merged, products, ptable, importRest>>

\* a stage of the flow crashes while reducers are still at work
StageCrashes ==
  /\ opc = "flow"
  /\ tables /= OrderStageIds
  /\ FlowExits("stage")

\* ETS.each_order or process_order/2 raises on table w inside Enum.each:
\* the rescue clause deletes the products table and reraises
ProcessRaises(w) ==
  /\ opc = "flow"
  /\ tables = OrderStageIds
  /\ towner[w] = "parent"
  /\ opc' = "raised"
  /\ err' = "process"
  /\ products' = <<>>
  /\ ptable' = "deleted"
  /\ UNCHANGED <<orders, opos, mq, rq, tab, towner, tables, tpos, finalized,
                 merged, importRest>>

NextOrder ==
  \/ \E m \in MapperIds : Dispatch(m)
  \/ \E m \in MapperIds : MapRow(m)
  \/ \E w \in OrderStageIds : ReduceOrder(w)
  \/ \E w \in OrderStageIds : TriggerOrders(w)
  \/ \E w \in OrderStageIds : ProcessTable(w)
  \/ FinishOrders
  \/ OrderDecodeRaises
  \/ StageCrashes
  \/ \E w \in OrderStageIds : ProcessRaises(w)

SpecOrder == InitOrder /\ [][NextOrder]_vars

(***************************************************************************)
(* A whole run of Product.import: Order.import/0, then the product flow.   *)
(***************************************************************************)
\* two open orders for one product, whose numbers hash to different stages
TwoStageFeed ==
  << OrderRow(1, "Open", 1, <<2>>, <<1>>, ""),
     OrderRow(2, "Open", 1, <<2>>, <<1>>, "") >>

\* the orders.csv files of the runs
RunOrderFeeds ==
  {<<>>, Order2Feed, SampleFeed, SharedStageFeed, TwoStageFeed}
\* the products.csv files of the runs
RunProductFeeds == {<<>>, WindowFeed, SnapshotFeed}

\* Product.import is called: it calls Order.import/0 first
InitRun ==
  /\ opc = "flow"
  /\ orders \in RunOrderFeeds
  /\ opos = 0
  /\ mq = [m \in MapperIds |-> <<>>]
  /\ rq = [w \in OrderStageIds |-> <<>>]
  /\ tab = [w \in OrderStageIds |-> <<>>]
  /\ towner = [w \in OrderStageIds |-> "worker"]
  /\ tables = {}
  /\ tpos = 0
  /\ finalized = <<>>
  /\ merged = [w \in OrderStageIds |-> <<>>]
  /\ ImportIdle
  /\ err = "none"
  /\ products = <<>>
  /\ ptable = "live"
  /\ SinkIdle
  /\ store = SnapshotStore
  /\ now = 1

\* Order.import/0 has returned table_ref: Product.import enters its try and
\* starts the product flow on products.csv
StartProducts ==
  /\ opc = "done"
  /\ pc = "idle"
  /\ pc' = "upsert"
  /\ feed' \in RunProductFeeds
  /\ persisted_before' = Ids(store)
  /\ UNCHANGED <<err, taken, products, ptable, acc, stageDone, emitted,
                 batches, imported_ids, chunks, deleted, store, now, sinkVars,
                 orderVars>>

NextRun ==
  \/ NextOrder
  \/ StartProducts
  \/ NextImport

SpecRun == InitRun /\ [][NextRun]_vars

\* the stages are processes of the Erlang scheduler, which is preemptive:
\* a run that can take a step takes one
FairRun == SpecRun /\ WF_vars(NextRun)

(***************************************************************************)
(* Properties of the upsert sink and of the reconciliation.                *)
(***************************************************************************)
\* the external ids of the entities the product feed yields
FeedIds == {transform(feed[i], products).external_id : i \in DOMAIN feed}

\* C1: the ids deleted by the run and the ids written by the run are
\* disjoint in every state, and when the run has completed every id that was
\* persisted before the run is among the deleted or the written ids.
C1_ReconciliationCorrect ==
  /\ deleted \cap emitted = {}
  /\ deleted \cap imported_ids = {}
  /\ pc = "done" => persisted_before \subseteq (deleted \cup imported_ids)

\* a completed run that rewrote some persisted rows and deleted others
C1_Witness ==
  /\ pc = "done"
  /\ deleted /= {}
  /\ persisted_before \cap imported_ids /= {}
  /\ imported_ids \ persisted_before /= {}

\* C2: when the run has completed, the ids in the store are exactly the ids
\* of the entities made from the product feed, and the ids deleted are
\* exactly the persisted ids that were not written.
C2_StoreIsSnapshot ==
  pc = "done" =>
    /\ Ids(store) = FeedIds
    /\ imported_ids = FeedIds
    /\ deleted = persisted_before \ imported_ids

\* store {1,2,3}, the run writes {2,3,4}: exactly {1} is deleted
C2_Witness ==
  /\ pc = "done"
  /\ persisted_before = {1, 2, 3}
  /\ imported_ids = {2, 3, 4}
  /\ deleted = {1}
  /\ Ids(store) = {2, 3, 4}

\* C3: giving the upsert callback the same batch a second time leaves the
\* store as the first call left it, timestamps included.
C3_UpsertIdempotent == sinkAgain => store = sinkSnap

ItemOf(r) ==
  [external_id |-> r.external_id, product_number |-> r.product_number,
   price |-> r.price, pending_orders_present |-> r.pending_orders_present,
   orders_present |-> r.orders_present, pending_pieces |-> r.pending_pieces]

\* C4: the store never holds two rows with one external id; after a batch
\* upsert each entity of the batch is the row of its id, whether the id was
\* there before (replaced) or not (inserted), and the rows of all other ids
\* are those from before the call.
C4_InsertOrReplace ==
  /\ \A r1, r2 \in store : r1.external_id = r2.external_id => r1 = r2
  /\ (sinkCalls >= 1 /\ ~ConflictsWithinBatch(sinkBatch)) =>
       /\ \A i \in DOMAIN sinkBatch :
            \E r \in store : ItemOf(r) = sinkBatch[i]
       /\ \A r \in sinkPrev :
            r.external_id \notin Ids(Range(sinkBatch)) => r \in store
       /\ \A r \in store :
            r.external_id \notin Ids(Range(sinkBatch)) => r \in sinkPrev

\* one call that replaced a row, inserted a row and left a third row alone
C4_Witness ==
  /\ sinkCalls >= 1
  /\ ~ConflictsWithinBatch(sinkBatch)
  /\ Ids(Range(sinkBatch)) \cap Ids(sinkPrev) /= {}
  /\ Ids(Range(sinkBatch)) \ Ids(sinkPrev) /= {}
  /\ Ids(sinkPrev) \ Ids(Range(sinkBatch)) /= {}

(***************************************************************************)
(* Properties of the order flow.                                           *)
(***************************************************************************)
KeysOf(events) == {events[i].order_number : i \in DOMAIN events}

\* the order numbers of the feed
FeedOrderNumbers == {orders[i].ORDER_NUMBER : i \in DOMAIN orders}

KeySeq(events, k) == SelectSeq(events, LAMBDA e : e.order_number = k)

IsPrefix(a, b) == Len(a) <= Len(b) /\ SubSeq(b, 1, Len(a)) = a

RECURSIVE FlowEvents(_)
\* the events of the non-ignored rows, in the order of the feed
FlowEvents(rows) ==
  IF rows = <<>> THEN <<>>
  ELSE (IF valid(Head(rows)) THEN <<project(Head(rows))>> ELSE <<>>)
         \o FlowEvents(Tail(rows))

\* the non-ignored rows of order k (positions in the feed)
ValidRowsOf(k) ==
  {i \in DOMAIN orders : orders[i].ORDER_NUMBER = k /\ valid(orders[i])}

RECURSIVE SumOver(_, _)
\* the sum of f[x] over the x of S
SumOver(S, f) ==
  IF S = {} THEN 0
  ELSE LET x == CHOOSE y \in S : TRUE IN f[x] + SumOver(S \ {x}, f)

\* the shipped pieces of the non-ignored rows of order k
ShippedOf(k) ==
  SumOver(ValidRowsOf(k),
          [i \in DOMAIN orders |-> DigitsValue(orders[i].SHIPPED_PIECES)])

\* all reducers have reduced everything the feed yields
Reduced ==
  /\ opc /= "exited"
  /\ UpstreamDone
  /\ \A w \in OrderStageIds : rq[w] = <<>>

\* occurrences of event e in the sequence
Count(events, e) == Cardinality({i \in DOMAIN events : events[i] = e})

\* C5: events of one order number are routed to one reducer stage: no order
\* number is queued at, reduced by, or in the table of two different stages.
C5_PartitionInvariant ==
  \A w1, w2 \in OrderStageIds :
    w1 /= w2 =>
      /\ (KeysOf(rq[w1]) \cup KeysOf(merged[w1]))
            \cap (KeysOf(rq[w2]) \cup KeysOf(merged[w2])) = {}
      /\ (DOMAIN tab[w1]) \cap (DOMAIN tab[w2]) = {}

\* the whole feed is dispatched and two stages hold an order each
C5_Witness ==
  \E w1, w2 \in OrderStageIds :
    /\ w1 /= w2
    /\ tab[w1] /= <<>>
    /\ tab[w2] /= <<>>
    /\ Len(merged[w1]) + Len(merged[w2]) = 2
    /\ opos = Len(orders)

\* C6: for every order number, the reducer stage merges the rows of that
\* order in the order they have in the feed.
C6_PerKeyOrder ==
  \A w \in OrderStageIds : \A k \in FeedOrderNumbers :
    IsPrefix(KeySeq(merged[w], k), KeySeq(FlowEvents(orders), k))

\* C7: a Closed row without bill of lading is never merged: what the
\* reducers have merged are the non-ignored rows and nothing else, an order
\* without non-ignored rows has no entry, its product gets no presence from
\* it, and the shipped total of an order counts its non-ignored rows only.
C7_IgnoredRows ==
  /\ \A w \in OrderStageIds : \A i \in DOMAIN merged[w] :
       Count(merged[w], merged[w][i])
         <= Count(FlowEvents(orders), merged[w][i])
  /\ Reduced =>
       \A i \in DOMAIN FlowEvents(orders) :
         LET e == FlowEvents(orders)[i]
         IN Count(merged[OrderStageOf(e)], e) = Count(FlowEvents(orders), e)
  /\ opc = "done" =>
       /\ DOMAIN finalized = {k \in FeedOrderNumbers : ValidRowsOf(k) /= {}}
       /\ \A k \in DOMAIN finalized :
            finalized[k].shipped_pieces = ShippedOf(k)
       /\ DOMAIN products =
            {finalized[k].product_number : k \in DOMAIN finalized}

\* a finished run over an ignored row and a row that counts, of one order
C7_Witness ==
  /\ opc = "done"
  /\ \E i, j \in DOMAIN orders :
       /\ orders[i].ORDER_NUMBER = orders[j].ORDER_NUMBER
       /\ ~valid(orders[i])
       /\ valid(orders[j])
       /\ orders[i].PRODUCT_NUMBER /= orders[j].PRODUCT_NUMBER

\* C8 as claimed: the order is pending exactly if a non-ignored row is Open
\* and no row of the order has a bill of lading.
C8_PendingNoMarkerAtAll ==
  opc = "done" =>
    \A k \in DOMAIN finalized :
      finalized[k].pending <=>
        /\ \E i \in ValidRowsOf(k) : orders[i].LINE_STATUS = "Open"
        /\ \A i \in DOMAIN orders :
             orders[i].ORDER_NUMBER = k => orders[i].BILL_OF_LADING = ""

\* C8, amended: the order is pending exactly if one of its non-ignored rows
\* is Open and has itself no bill of lading.
C8_PendingRule ==
  opc = "done" =>
    \A k \in DOMAIN finalized :
      finalized[k].pending <=>
        \E i \in ValidRowsOf(k) :
          orders[i].LINE_STATUS = "Open" /\ orders[i].BILL_OF_LADING = ""

\* a finished run with a pending order and an order that is not pending
C8_Witness ==
  /\ opc = "done"
  /\ \E k1, k2 \in DOMAIN finalized :
       finalized[k1].pending /\ ~finalized[k2].pending

\* C9: an order with an Open row without bill of lading is pending whatever
\* its other rows carry; the two shipments of order-2 (4000 ordered, 1200
\* shipped with bill of lading 12, 2000 shipped without) end pending with
\* 800 pieces left.
C9_Order2Pending ==
  opc = "done" =>
    /\ \A i \in DOMAIN orders :
         (orders[i].LINE_STATUS = "Open" /\ orders[i].BILL_OF_LADING = "")
           => finalized[orders[i].ORDER_NUMBER].pending
    /\ orders = Order2Feed =>
         /\ finalized[2].pending
         /\ pending_pieces(finalized[2]) = 800
         /\ products = (1 :> [pending |-> TRUE, pending_pieces |-> 800,
                              orders_present |-> TRUE])

\* the flow over the two shipments of order-2 has finished
C9_Witness == opc = "done" /\ orders = Order2Feed

\* the pieces left of the orders of product p, from the feed
PendingPiecesOfProduct(p) ==
  SumOver({k \in DOMAIN finalized : finalized[k].product_number = p},
          [k \in DOMAIN finalized |->
             finalized[k].ordered_pieces - ShippedOf(k)])

\* C10: no pending quantity exists before the reducers have given their
\* tables away; the quantity then computed for an order is its ordered
\* pieces less the shipped pieces of all its non-ignored rows, which is what
\* the products table sums per product.
C10_PendingQuantity ==
  /\ tpos = 0 => products = <<>>
  /\ \A k \in DOMAIN finalized :
       /\ pending_pieces(finalized[k])
            = finalized[k].ordered_pieces - ShippedOf(k)
       /\ \E i \in ValidRowsOf(k) :
            finalized[k].ordered_pieces = DigitsValue(orders[i].ORDERED_PIECES)
  /\ opc = "done" =>
       \A p \in DOMAIN products :
         products[p].pending_pieces = PendingPiecesOfProduct(p)

\* a finished run with an order of two shipments
C10_Witness ==
  /\ opc = "done"
  /\ \E k \in DOMAIN finalized : Cardinality(ValidRowsOf(k)) = 2

\* C11: no pending quantity is negative: not the one computed for an order,
\* not the one the products table holds for a product.
C11_PendingQuantityNonNegative ==
  /\ \A k \in DOMAIN finalized : pending_pieces(finalized[k]) >= 0
  /\ \A p \in DOMAIN products : products[p].pending_pieces >= 0

\* the finished order aggregates that refer to product p
OrdersOf(p) == {k \in DOMAIN finalized : finalized[k].product_number = p}

\* C12: in the finished products table a product is present exactly if an
\* order aggregate refers to it, it has pending orders exactly if one of
\* those aggregates is pending, and its pending pieces are the sum of the
\* pending pieces of those aggregates.
C12_SecondaryAggregator ==
  opc = "done" =>
    /\ \A k \in DOMAIN finalized : finalized[k].product_number \in DOMAIN products
    /\ \A p \in DOMAIN products :
         /\ products[p].orders_present <=> OrdersOf(p) /= {}
         /\ products[p].pending <=> \E k \in OrdersOf(p) : finalized[k].pending
         /\ products[p].pending_pieces
              = SumOver(OrdersOf(p),
                        [k \in DOMAIN finalized |-> pending_pieces(finalized[k])])

\* a finished run where a product has a pending order and one that is not
C12_Witness ==
  /\ opc = "done"
  /\ \E p \in DOMAIN products : \E k1, k2 \in OrdersOf(p) :
       finalized[k1].pending /\ ~finalized[k2].pending

(***************************************************************************)
(* Properties of the join, the batcher and the failures of the import.     *)
(***************************************************************************)
\* the entities the batcher holds or has emitted
EntitiesOf(s) ==
  Range(acc[s]) \cup UNION {Range(batches[s][n]) : n \in DOMAIN batches[s]}

\* the entity carries the values of its product's entry, or the defaults
Joined(item) ==
  IF item.product_number \in DOMAIN products
  THEN /\ item.pending_orders_present = products[item.product_number].pending
       /\ item.pending_pieces = products[item.product_number].pending_pieces
       /\ item.orders_present = products[item.product_number].orders_present
  ELSE /\ item.pending_orders_present = FALSE
       /\ item.pending_pieces = 0
       /\ item.orders_present = FALSE

\* C13: while the products table is alive every entity made by the join
\* carries the values of its product's entry, or false, 0, false when the
\* table has no entry for it, and no step of the import changes the table
\* before it is released.
C13_JoinDefault ==
  /\ [](ptable = "live" =>
          \A s \in BatchStageIds : \A item \in EntitiesOf(s) : Joined(item))
  /\ [][ptable' = "live" => products' = products]_vars

\* entities were written for a product with an entry and for one without
C13_Witness ==
  /\ ptable = "live"
  /\ products /= <<>>
  /\ \E s1, s2 \in BatchStageIds :
       /\ \E n \in DOMAIN batches[s1] : \E i \in DOMAIN batches[s1][n] :
            batches[s1][n][i].product_number \in DOMAIN products
       /\ \E n \in DOMAIN batches[s2] : \E i \in DOMAIN batches[s2][n] :
            batches[s2][n][i].product_number \notin DOMAIN products

\* where the batcher holds an entity: <<s, 0, i>> is place i of the buffer
\* of stage s, <<s, n, i>> place i of the n-th batch stage s has emitted
Places ==
  UNION {{<<s, 0, i>> : i \in DOMAIN acc[s]} : s \in BatchStageIds}
    \cup UNION {UNION {{<<s, n, i>> : i \in DOMAIN batches[s][n]} :
                         n \in DOMAIN batches[s]} : s \in BatchStageIds}

\* the entity at a place
At(pl) ==
  IF pl[2] = 0 THEN acc[pl[1]][pl[3]] ELSE batches[pl[1]][pl[2]][pl[3]]

\* C14: no batch holds more than BatchSize entities; while the flow runs
\* the batcher holds every entity it was fed exactly as often as it was fed
\* it, buffered or in an emitted batch, and nothing else; and when the
\* stream has completed nothing is left in a buffer: every entity of the
\* feed is in the emitted batches, as often as the feed has it.
C14_Batcher ==
  /\ \A s \in BatchStageIds : \A n \in DOMAIN batches[s] :
       Len(batches[s][n]) <= BatchSize
  /\ pc \in {"upsert", "delete"} =>
       LET held == [pl \in Places |-> At(pl)]
           fed == [i \in taken |-> transform(feed[i], products)]
       IN \A item \in Range(held) \cup Range(fed) :
            Cardinality({pl \in DOMAIN held : held[pl] = item})
              = Cardinality({i \in taken : fed[i] = item})
  /\ pc = "delete" =>
       /\ taken = DOMAIN feed
       /\ \A s \in BatchStageIds : acc[s] = <<>>

\* the stream has completed; one stage emitted a full window, another one
\* its final, shorter batch
C14_Witness ==
  /\ pc = "delete"
  /\ \E s1, s2 \in BatchStageIds :
       /\ s1 /= s2
       /\ \E n \in DOMAIN batches[s1] : Len(batches[s1][n]) = BatchSize
       /\ \E n \in DOMAIN batches[s2] :
            Len(batches[s2][n]) \in 1..(BatchSize - 1)

\* C15: once a batch write has failed the run is failed: delete/2 has not
\* computed anything, nothing was deleted, and every row that was in the
\* store before the run is still there.
C15_UpsertFailureFatal ==
  err = "upsert" =>
    /\ pc = "failed"
    /\ imported_ids = {}
    /\ chunks = <<>>
    /\ deleted = {}
    /\ persisted_before \subseteq Ids(store)

\* a batch write failed after another batch had been written, while rows
\* of the store were still not written by the run
C15_Witness ==
  /\ err = "upsert"
  /\ emitted /= {}
  /\ persisted_before \ emitted /= {}

\* C16: a delete chunk that fails does not end the run: the run goes on
\* with the chunks that are left and completes.
C16_ChunkFailureNotFatal ==
  err = "delete" => (pc \in {"delete", "done"} /\ (pc = "done" => chunks = <<>>))

\* C17: a line that does not decode never ends a run: neither the order
\* flow nor the product flow stops because of it.
C17_RowErrorsNotFatal ==
  err = "decode" => (opc \notin {"raised", "exited"} /\ pc /= "failed")

\* C18: an entity without external id never reaches the sink: it is in no
\* buffer and no batch, its id is not among the written ids, and the store
\* holds no row without id.
C18_NullIdDropped ==
  /\ \A s \in BatchStageIds : \A item \in EntitiesOf(s) :
       item.external_id /= NoId
  /\ NoId \notin emitted
  /\ NoId \notin imported_ids
  /\ NoId \notin Ids(store)

(***************************************************************************)
(* Ownership and release of the tables.                                    *)
(***************************************************************************)
\* the steps the owner of table w can take on it
OwnerStep(w) ==
  /\ merged'[w] /= merged[w] =>
       towner[w] = "worker" /\ towner'[w] = "worker"
  /\ tab'[w] /= tab[w] =>
       \/ towner[w] = "worker" /\ towner'[w] = "worker"
       \/ towner[w] = "parent" /\ towner'[w] = "deleted"
       \/ towner[w] = "worker" /\ opc' = "exited"
  /\ towner'[w] /= towner[w] =>
       <<towner[w], towner'[w]>> \in
          {<<"worker", "parent">>, <<"parent", "deleted">>,
           <<"worker", "deleted">>}

\* C19: a table has one owner at a time, its reducer stage until the
\* handoff and the parent afterwards: the parent holds exactly tables the
\* stages gave away, only the stage that owns a table merges into it, only
\* the parent that owns it consumes it, and no stage merges after the
\* handoff.
C19_ExclusiveOwnership ==
  /\ [](\A w \in OrderStageIds :
          /\ w \in tables => towner[w] /= "worker"
          /\ towner[w] = "parent" => w \in tables)
  /\ [][\A w \in OrderStageIds : OwnerStep(w)]_vars

\* one stage has handed its table to the parent while another stage still
\* owns its table; both tables hold orders
C19_Witness ==
  /\ opc = "flow"
  /\ \E w1, w2 \in OrderStageIds :
       /\ towner[w1] = "parent" /\ tab[w1] /= <<>>
       /\ towner[w2] = "worker" /\ tab[w2] /= <<>>

\* C20: however a run ends, the tables it created are gone: after a failed
\* Order.import/0 no reducer table and no products table is left, after a
\* successful one no reducer table is left, and after Product.import,
\* failed or not, the products table is deleted.
C20_ReleasedOnEveryExit ==
  /\ opc \in {"raised", "exited"} =>
       /\ \A w \in OrderStageIds : towner[w] = "deleted" /\ tab[w] = <<>>
       /\ ptable = "deleted"
       /\ products = <<>>
  /\ opc = "done" => \A w \in OrderStageIds : towner[w] = "deleted"
  /\ pc \in {"done", "failed"} => ptable = "deleted"

(***************************************************************************)
(* The reduction against a sequential pass.                                *)
(***************************************************************************)
RECURSIVE MergeAll(_, _)
\* Flow.reduce over the events in the order given, from the table given
MergeAll(events, table) ==
  IF events = <<>> THEN table
  ELSE MergeAll(Tail(events), reduce_order(Head(events), table))

\* the orders in which the records of a sequence can arrive
Perms(events) ==
  {p \in [DOMAIN events -> DOMAIN events] :
     \A i, j \in DOMAIN events : p[i] = p[j] => i = j}

\* C22: whatever records of one order number a reducer stage has merged,
\* merging them in any other order yields the same entry for the order:
\* the same product number, ordered pieces, shipped pieces and pending flag.
C22_MergeOrderInsensitive ==
  \A w \in OrderStageIds : \A k \in KeysOf(merged[w]) :
    LET events == KeySeq(merged[w], k)
    IN \A p \in Perms(events) :
         MergeAll([i \in DOMAIN events |-> events[p[i]]], <<>>)[k]
           = MergeAll(events, <<>>)[k]

(***************************************************************************)
(* Reconciliation after the sink.                                          *)
(***************************************************************************)
\* the ids in the chunks delete/2 has still to delete
ChunkIds == UNION {Range(chunks[n]) : n \in DOMAIN chunks}

\* the ids of the entities in the batches the stages have written
BatchIds ==
  UNION {UNION {Ids(Range(batches[s][n])) : n \in DOMAIN batches[s]} :
           s \in BatchStageIds}

\* C23: delete/2 has read the persisted ids, or deleted anything, only when
\* every batching stage has written its last batch: nothing is buffered, the
\* whole feed is written, the written ids are the ids of all batches and
\* their rows are in the store. The ids to delete are then cut into chunks
\* of at most ChunkSize ids that share no id, and the chunks already deleted
\* and those still to delete together are exactly the persisted ids that
\* were not written.
C23_ReconcileAfterSink ==
  /\ (pc \in {"delete", "done"} \/ deleted /= {} \/ chunks /= <<>>) =>
       /\ \A s \in BatchStageIds : stageDone[s] /\ acc[s] = <<>>
       /\ taken = DOMAIN feed
       /\ imported_ids = BatchIds
       /\ imported_ids = emitted
       /\ imported_ids \subseteq Ids(store)
  /\ pc \in {"delete", "done"} =>
       /\ \A n \in DOMAIN chunks :
            /\ Len(chunks[n]) \in 1..ChunkSize
            /\ Cardinality(Range(chunks[n])) = Len(chunks[n])
       /\ \A n, m \in DOMAIN chunks :
            n /= m => Range(chunks[n]) \cap Range(chunks[m]) = {}
       /\ ChunkIds \cap deleted = {}
       /\ ChunkIds \cup deleted = persisted_before \ imported_ids
       /\ Ids(store) = imported_ids \cup ChunkIds

\* three stages have written a batch each, delete/2 has deleted one chunk
\* and has another one to delete
C23_Witness ==
  /\ pc = "delete"
  /\ chunks /= <<>>
  /\ \E s1, s2 \in BatchStageIds :
       s1 /= s2 /\ batches[s1] /= <<>> /\ batches[s2] /= <<>>

\* C27: a run that has written no id deletes every row the store held: all
\* persisted ids are in the chunks delete/2 computes, and when the run has
\* completed the store is empty.
C27_EmptyRunDeletesAll ==
  /\ (pc = "delete" /\ imported_ids = {}) =>
       ChunkIds \cup deleted = persisted_before
  /\ (pc = "done" /\ imported_ids = {}) =>
       /\ store = {}
       /\ deleted = persisted_before

\* a completed run over an empty feed against a store of three rows
C27_Witness ==
  /\ pc = "done"
  /\ feed = <<>>
  /\ imported_ids = {}
  /\ persisted_before = {1, 2, 3}
  /\ store = {}

\* one sequential pass over the feed: a single reducer merges the events of
\* the non-ignored rows in feed order, then the orders are folded
SequentialOrders == MergeAll(FlowEvents(orders), <<>>)

SequentialProducts ==
  each_order(DOMAIN SequentialOrders, SequentialOrders, <<>>)

\* C25: when Order.import/0 has finished, the products table is the one a
\* single sequential pass over the feed computes, however the stages of the
\* flow interleaved.
C25_RefinesSequential == opc = "done" => products = SequentialProducts

(***************************************************************************)
(* The store after a run against a single sequential writer.               *)
(***************************************************************************)
\* the last row of the feed that carries the id (a position in the feed)
LastRowOf(id) ==
  CHOOSE i \in DOMAIN feed :
    /\ feed[i].PRODUCT_NUMBER = id
    /\ \A j \in DOMAIN feed : feed[j].PRODUCT_NUMBER = id => j <= i

\* C26: the rows a run leaves for the ids it wrote are those a single
\* writer going through the feed in order leaves, whichever way the
\* batching stages interleaved: when all batches are written the row of an
\* id is the entity of the last feed row with that id, and it is still that
\* row when the run has completed.
C26_StoreDetermined ==
  /\ pc = "delete" =>
       \A r \in store :
         r.external_id \in imported_ids =>
           ItemOf(r) = transform(feed[LastRowOf(r.external_id)], products)
  /\ pc = "done" =>
       \A r \in store :
         r.price = parse_decimal(feed[LastRowOf(r.external_id)].PRICE)

(***************************************************************************)
(* How a run ends.                                                         *)
(***************************************************************************)
\* Product.import has returned
RunCompleted == opc = "done" /\ pc = "done"

\* an exception or an exit has left Product.import
RunFailed == opc \in {"raised", "exited"} \/ pc = "failed"

WorkerPhase(w) ==
  IF w \in tables THEN "FINALIZED"
  ELSE IF merged[w] = <<>> THEN "EMPTY"
  ELSE "ACCUMULATING"

\* the moves along EMPTY -> ACCUMULATING -> FINALIZED; a stage that gets no
\* record of the feed is finalized without having merged
PhaseMoves ==
  {<<"EMPTY", "ACCUMULATING">>, <<"ACCUMULATING", "FINALIZED">>,
   <<"EMPTY", "FINALIZED">>}

\* C24: a reducer stage only moves forward from EMPTY over ACCUMULATING to
\* FINALIZED; nothing of any table is folded into the products table, and
\* no table is consumed, before all reducer stages are FINALIZED; and the
\* product flow reads the products table only when Order.import/0 has
\* returned, with the tables of all stages folded and deleted.
C24_HandoffBarrier ==
  /\ [][\A w \in OrderStageIds :
          WorkerPhase(w)' /= WorkerPhase(w) =>
            <<WorkerPhase(w), WorkerPhase(w)'>> \in PhaseMoves]_vars
  /\ []((tpos > 0 \/ finalized /= <<>> \/ (ptable = "live" /\ products /= <<>>)
           \/ \E w \in tables : towner[w] = "deleted")
          => \A w \in OrderStageIds : WorkerPhase(w) = "FINALIZED")
  /\ []((pc /= "idle" \/ taken /= {}) =>
          /\ opc = "done"
          /\ tpos = OrderStages
          /\ \A w \in OrderStageIds : towner[w] = "deleted")

\* the product flow has made an entity from the entry of a product that the
\* fold of the orders of two reducer stages' tables produced
C24_Witness ==
  /\ pc = "upsert"
  /\ Cardinality({w \in OrderStageIds : merged[w] /= <<>>}) >= 2
  /\ \E s \in BatchStageIds : \E item \in EntitiesOf(s) : item.orders_present

====
